---- MODULE Spec2Model ----
(***************************************************************************)
(* Twin experiment of the stochastic ensemble Kalman filter                *)
(* (05_Lorenz63_EnKF/L63_EnKF.py): observation schedule, truth and         *)
(* observation pass, ensemble initialisation, forecast/analysis loop and   *)
(* the EnKF analysis function.                                             *)
(*                                                                         *)
(* The state dimension is 1 (n = m = 1), so vectors and matrices are       *)
(* scalars; reals are exact rationals <<numerator, denominator>>.          *)
(* Arrays keep the 0-based indices of the script.                          *)
(***************************************************************************)
EXTENDS Integers, Sequences, FiniteSets, TLC

\* ---------------------------------------------------------------- bounds
MaxTm == 3
MaxDt == 2
MaxDtM == 2
MaxTmM == 2
MaxN == 2
\* the schedule alone is also checked on longer horizons
SchedMaxDtM == 4
SchedMaxTmM == 9
\* inputs of a single EnKF call
CallMaxN == 2
CallMaxVal == 2

\* ------------------------------------------------------- exact rationals
\* (every parameter and LET name of the module is unique, so that no name of
\* a caller is ever rebound by a callee)
Abs(ax) == IF ax < 0 THEN -ax ELSE ax

RECURSIVE GCD(_, _)
GCD(ga, gb) == IF gb = 0 THEN ga ELSE GCD(gb, ga % gb)

Norm(np, nq) ==
  LET ng == GCD(Abs(np), Abs(nq))
      ns == IF nq < 0 THEN -1 ELSE 1
  IN  <<ns * (np \div ng), ns * (nq \div ng)>>

Rat(ri) == <<ri, 1>>
Zero == Rat(0)
One == Rat(1)

\* Sum and product are functions, so that their arguments are values when
\* they are applied.
Plus[xa \in Int \X Int, xb \in Int \X Int] ==
  LET xg == GCD(xa[2], xb[2])
  IN  Norm(xa[1] * (xb[2] \div xg) + xb[1] * (xa[2] \div xg),
           (xa[2] \div xg) * xb[2])

Times[ma \in Int \X Int, mb \in Int \X Int] ==
  LET mg1 == GCD(Abs(ma[1]), mb[2])
      mg2 == GCD(Abs(mb[1]), ma[2])
  IN  Norm((ma[1] \div mg1) * (mb[1] \div mg2),
           (ma[2] \div mg2) * (mb[2] \div mg1))

RAdd(ya, yb) == Plus[ya, yb]
RMul(za, zb) == Times[za, zb]
RNeg(na) == <<-na[1], na[2]>>
RSub(sa, sb) == RAdd(sa, RNeg(sb))
RInv(ia) == Norm(ia[2], ia[1])
RDiv(da, db) == RMul(da, RInv(db))

RECURSIVE RSum(_, _)
RSum(sf, sn) == IF sn = 0 THEN Zero ELSE RAdd(RSum(sf, sn - 1), sf[sn - 1])

\* ------------------------------------------------------ program constants
u0True == Rat(1)
u0b == Rat(2)
Q == Zero

\* Values a Gaussian draw can take in the model: a draw from a zero
\* covariance is 0, any other draw is one of NoiseVals.
NoiseVals == {Zero, One}
\* (variant: a draw that ignores its covariance)
Normal_Unit(cov) == NoiseVals

Normal(cov) == IF cov = Zero THEN {Zero} ELSE NoiseVals

VARIABLES
  dt, tm, nt,            \* time step, horizon, number of steps
  sig_m, R,              \* measurement noise
  dt_m, tm_m, nt_m,      \* measurement interval, horizon, number of instants
  ind_m,                 \* observation schedule, 0 .. nt_m-1 -> step index
  uTrue, w,              \* truth trajectory and observations
  k, km,                 \* loop index and observation cursor
  sig_b, B,              \* background noise and forecast covariance
  ub, ua, uai, N,        \* background, analysis mean, ensemble, ensemble size
  pc, err,               \* position in the script and the exception raised
  draws,                 \* draws taken from np.random since the seed, in order
  calls                  \* the calls of EnKF made so far, with their results

vars == <<dt, tm, nt, sig_m, R, dt_m, tm_m, nt_m, ind_m, uTrue, w, k, km,
          sig_b, B, ub, ua, uai, N, pc, err, draws, calls>>

config == <<dt, tm, nt, sig_m, R, dt_m, tm_m, sig_b, N>>

\* ------------------------------------------------------------ the model
\* The vector field (a uniform drift du/dt = 1 stands for the 3-D system)
\* and the classical 4-stage step.
Lorenz63(lu) == One

RK4(ru, step) ==
  LET k1 == Lorenz63(ru)
      k2 == Lorenz63(RAdd(ru, RMul(Norm(step, 2), k1)))
      k3 == Lorenz63(RAdd(ru, RMul(Norm(step, 2), k2)))
      k4 == Lorenz63(RAdd(ru, RMul(Rat(step), k3)))
  IN  RAdd(ru, RMul(Norm(step, 6),
        RAdd(RAdd(k1, RMul(Rat(2), k2)), RAdd(RMul(Rat(2), k3), k4))))

\* Observation operator and its Jacobian (identity).
h(hu) == hu
Dh(du) == One

\* The operators EnKF can be handed: the script's pair (h, Dh), or a
\* nonlinear pair (u^2, 2u).
ObsOps == {"h", "square"}
ObsOp(oo, ou) == IF oo = "h" THEN h(ou) ELSE RMul(ou, ou)
JObsOp(jo, ju) == IF jo = "h" THEN Dh(ju) ELSE RMul(Rat(2), ju)

\* np.mean(uai,1) of an ensemble with n members
Mean(me, mn) == RDiv(RSum(me, mn), Rat(mn))

\* (1/(N-1)) * (uai - mean) @ (uai - mean).T, for N /= 1
Cov(ce, cmean, cn) ==
  RMul(<<1, cn - 1>>,
       RSum([ci \in 0 .. cn - 1 |->
               RMul(RSub(ce[ci], cmean), RSub(ce[ci], cmean))], cn))

\* K = B @ Dh.T @ inv(Dh @ B @ Dh.T + R)
InnovCov(vD, vB, vR) == RAdd(RMul(RMul(vD, vB), vD), vR)
Gain(gD, gB, gR) == RDiv(RMul(gB, gD), InnovCov(gD, gB, gR))

\* uai[:,i] = ubi[:,i] + K @ (wi[:,i] - ObsOp(ubi[:,i]))
\* (variant: the innovation taken at the observation alone)
Member_NoObsOp(mu, mK, mw, mop) == RAdd(mu, RMul(mK, mw))

Member(mu, mK, mw, mop) == RAdd(mu, RMul(mK, RSub(mw, ObsOp(mop, mu))))

\* (variant: a singular innovation covariance leaves the ensemble as it is)
EnKF_SkipsSingular(ubi, wv, op, Rm, Bf, eps, n) ==
  LET ubm == Mean(ubi, n)
      Dhm == JObsOp(op, ubm)
      K   == Gain(Dhm, Bf, Rm)
      wi  == [i \in 0 .. n - 1 |-> RAdd(wv, eps[i])]
      an  == [i \in 0 .. n - 1 |-> Member(ubi[i], K, wi[i], op)]
  IN  CASE InnovCov(Dhm, Bf, Rm) = Zero ->
             [err |-> "none", ndraws |-> 0, K |-> Zero,
              uai |-> ubi, P |-> Bf]
        [] InnovCov(Dhm, Bf, Rm) # Zero /\ n - 1 = 0 ->
             [err |-> "ZeroDivisionError", ndraws |-> n, K |-> K,
              uai |-> an, P |-> Bf]
        [] InnovCov(Dhm, Bf, Rm) # Zero /\ n - 1 # 0 ->
             [err |-> "none", ndraws |-> n, K |-> K,
              uai |-> an, P |-> Cov(an, Mean(an, n), n)]

\* The analysis function.  eps[i] is the draw taken for member i.  Returns
\* what the call leaves behind: the exception it raised ("none" when it
\* returns), the number of draws it took, K, the analysis ensemble and P.
EnKF(ubi, wv, op, Rm, Bf, eps, n) ==
  LET ubm == Mean(ubi, n)
      Dhm == JObsOp(op, ubm)
      K   == Gain(Dhm, Bf, Rm)
      wi  == [i \in 0 .. n - 1 |-> RAdd(wv, eps[i])]
      an  == [i \in 0 .. n - 1 |-> Member(ubi[i], K, wi[i], op)]
  IN  CASE InnovCov(Dhm, Bf, Rm) = Zero ->
             [err |-> "LinAlgError", ndraws |-> 0, K |-> Zero,
              uai |-> ubi, P |-> Bf]
        [] InnovCov(Dhm, Bf, Rm) # Zero /\ n - 1 = 0 ->
             [err |-> "ZeroDivisionError", ndraws |-> n, K |-> K,
              uai |-> an, P |-> Bf]
        [] InnovCov(Dhm, Bf, Rm) # Zero /\ n - 1 # 0 ->
             [err |-> "none", ndraws |-> n, K |-> K,
              uai |-> an, P |-> Cov(an, Mean(an, n), n)]

\* ------------------------------------------------------------- schedule
\* np.linspace(a, b, n).astype(int) for 0 <= a <= b: entry i is
\* a + i*(b-a)/(n-1) truncated.
Linspace(la, lb, ln) ==
  [li \in 0 .. ln - 1 |->
     IF ln = 1 THEN la ELSE (la * (ln - 1) + li * (lb - la)) \div (ln - 1)]

NtM(ntmm, ndtm) == ntmm \div ndtm
IndM(dtv, dtm, tmm) == Linspace(dtm \div dtv, tmm \div dtv, NtM(tmm, dtm))

\* (variant: the index of the step instead of the index of its result)
ObsDue_OffByOne(okm, ok) == okm < nt_m /\ ok = ind_m[okm]

\* the condition of lines 90 and 133
ObsDue(okm, ok) == okm < nt_m /\ ok + 1 = ind_m[okm]

\* ------------------------------------------------------------- actions
\* Lines 76-87: the schedule, and the arrays of the truth pass.  t[ind_m]
\* raises IndexError when an index lies beyond the time grid.
Schedule ==
  /\ pc = "schedule"
  /\ nt_m' = NtM(tm_m, dt_m)
  /\ ind_m' = IndM(dt, dt_m, tm_m)
  /\ IF \E j \in DOMAIN ind_m' : ind_m'[j] > nt
     THEN /\ pc' = "failed" /\ err' = "IndexError"
          /\ UNCHANGED <<uTrue, w, km, k>>
     ELSE /\ pc' = "truth" /\ err' = err
          /\ uTrue' = [j \in 0 .. nt |-> IF j = 0 THEN u0True ELSE Zero]
          /\ w' = [j \in 0 .. nt_m' - 1 |-> Zero]
          /\ km' = 0 /\ k' = 0
  /\ UNCHANGED <<config, B, ub, ua, uai, draws, calls>>

\* Lines 88-92: one iteration of the truth/observation pass.
TruthStep ==
  /\ pc = "truth" /\ k < nt
  /\ LET xt == RK4(uTrue[k], dt)
     IN  /\ uTrue' = [uTrue EXCEPT ![k + 1] = xt]
         /\ IF ObsDue(km, k)
            THEN \E et \in Normal(Rat(sig_m)) :
                   /\ w' = [w EXCEPT ![km] = RAdd(h(xt), et)]
                   /\ km' = km + 1
                   /\ draws' = Append(draws, <<"truth", km, 0>>)
            ELSE UNCHANGED <<w, km, draws>>
  /\ k' = k + 1
  /\ UNCHANGED <<config, nt_m, ind_m, B, ub, ua, uai, pc, err, calls>>

\* The draw sites of the ensemble initialisation, in the order visited.
InitDraws(dn) == [di \in 1 .. dn |-> <<"init", 0, di - 1>>]

\* Lines 96-118, entered when range(nt) of the truth pass is exhausted.
InitEnsemble ==
  /\ pc = "truth" /\ k = nt
  /\ B' = RMul(Rat(sig_b), Rat(sig_b))
  /\ ub' = [j \in 0 .. nt |-> IF j = 0 THEN u0b ELSE Zero]
  /\ ua' = [j \in 0 .. nt |-> IF j = 0 THEN u0b ELSE Zero]
  /\ \E e0 \in [0 .. N - 1 -> Normal(B')] :
       uai' = [i \in 0 .. N - 1 |-> RAdd(u0b, e0[i])]
  /\ draws' = draws \o InitDraws(N)
  /\ km' = 0 /\ k' = 0
  /\ pc' = "main"
  /\ UNCHANGED <<config, nt_m, ind_m, uTrue, w, err, calls>>

\* (variant: the background restarts from the recorded filter estimate)
Background_FromAnalysis(bub, bk) == [bub EXCEPT ![bk + 1] = RK4(ua[bk], dt)]

\* Line 122: the uncorrected background trajectory.
Background(bub, bk) == [bub EXCEPT ![bk + 1] = RK4(bub[bk], dt)]

\* Lines 124-126: forecast of the ensemble, q[i] the process noise of member i.
Forecast(fe, fq) == [fi \in 0 .. N - 1 |-> RAdd(RK4(fe[fi], dt), fq[fi])]

\* Line 129: ua[:,k+1] = np.mean(uai,1), of the forecast ensemble
RecordMean(rua, rk, re) == [rua EXCEPT ![rk + 1] = Mean(re, N)]

\* (variant: the mean is not recorded again after the analysis)
RecordAnalysisMean_Skipped(aua, ak, ae) == aua

\* Line 137: ua[:,k+1] = np.mean(uai,1), of the analysis ensemble
RecordAnalysisMean(aua, ak, ae) == [aua EXCEPT ![ak + 1] = Mean(ae, N)]

\* (variant: divisor N instead of N-1)
ForecastCov_Population(ve, vua, vk) ==
  RMul(<<N - 1, N>>, Cov(ve, vua[vk + 1], N))

\* Line 131: B from the forecast ensemble and its recorded mean.
ForecastCov(ve, vua, vk) == Cov(ve, vua[vk + 1], N)

\* (variant: the cursor is not advanced)
NextKm_Stuck(nkm) == nkm

\* Line 138
NextKm(nkm) == nkm + 1

\* (variant: the EnKF draws are taken before the process noise)
StepDraws_VirtFirst(tk, nd) ==
  [tj \in 1 .. nd |-> <<"virt", tk, tj - 1>>] \o
  [ti \in 1 .. N |-> <<"proc", tk, ti - 1>>]

\* The draw sites one iteration of the main loop visits, in order: the
\* process noise of every member, then the nd draws the EnKF call took.
StepDraws(tk, nd) ==
  [ti \in 1 .. N |-> <<"proc", tk, ti - 1>>] \o
  [tj \in 1 .. nd |-> <<"virt", tk, tj - 1>>]

\* Lines 119-138: one iteration of the main loop from the state (ub0, ua0,
\* ens, B0, km0) at index k0, with process noise qs and EnKF draws es.
\* err is the exception that ended the iteration, "none" if it completed;
\* call holds the EnKF call that was made, if any.
MainStepOf(ub0, ua0, ens, B0, km0, k0, qs, es) ==
  LET ub1 == Background(ub0, k0)
      fc  == Forecast(ens, qs)
      ua1 == RecordMean(ua0, k0, fc)
      Bfc == ForecastCov(fc, ua1, k0)
      r   == EnKF(fc, w[km0], "h", R, Bfc, es, N)
      c   == [k |-> k0, km |-> km0, ubi |-> fc, w |-> w[km0], op |-> "h",
              R |-> R, B |-> Bfc, eps |-> es, n |-> N, res |-> r]
  IN  CASE N - 1 = 0 ->
             [ub |-> ub1, ua |-> ua1, uai |-> fc, B |-> B0, km |-> km0,
              err |-> "ZeroDivisionError", call |-> <<>>,
              draws |-> StepDraws(k0, 0)]
        [] N - 1 # 0 /\ ~ObsDue(km0, k0) ->
             [ub |-> ub1, ua |-> ua1, uai |-> fc, B |-> Bfc, km |-> km0,
              err |-> "none", call |-> <<>>, draws |-> StepDraws(k0, 0)]
        [] N - 1 # 0 /\ ObsDue(km0, k0) /\ r.err # "none" ->
             [ub |-> ub1, ua |-> ua1, uai |-> fc, B |-> Bfc, km |-> km0,
              err |-> r.err, call |-> <<c>>,
              draws |-> StepDraws(k0, r.ndraws)]
        [] N - 1 # 0 /\ ObsDue(km0, k0) /\ r.err = "none" ->
             [ub |-> ub1, ua |-> RecordAnalysisMean(ua1, k0, r.uai), uai |-> r.uai,
              B |-> r.P, km |-> NextKm(km0), err |-> "none",
              call |-> <<c>>, draws |-> StepDraws(k0, r.ndraws)]

NoDraw == [i \in 0 .. N - 1 |-> Zero]

MainStep ==
  /\ pc = "main" /\ k < nt
  /\ \E q0 \in [0 .. N - 1 -> Normal(Q)] :
     \E e1 \in (IF ObsDue(km, k) THEN [0 .. N - 1 -> Normal(R)] ELSE {NoDraw}) :
       \E st \in {MainStepOf(ub, ua, uai, B, km, k, q0, e1)} :
           /\ ub' = st.ub /\ ua' = st.ua /\ uai' = st.uai /\ B' = st.B
           /\ km' = st.km
           /\ draws' = draws \o st.draws
           /\ calls' = calls \o st.call
           /\ IF st.err = "none"
              THEN k' = k + 1 /\ pc' = pc /\ err' = err
              ELSE k' = k /\ pc' = "failed" /\ err' = st.err
  /\ UNCHANGED <<config, nt_m, ind_m, uTrue, w>>

\* range(nt) of the main loop is exhausted: the script goes on to plotting.
MainEnd ==
  /\ pc = "main" /\ k = nt
  /\ pc' = "done"
  /\ UNCHANGED <<config, nt_m, ind_m, uTrue, w, k, km, B, ub, ua, uai, err,
                 draws, calls>>

Next == Schedule \/ TruthStep \/ InitEnsemble \/ MainStep \/ MainEnd

\* The state after lines 48-72 (parameters, seed, R), for the given sets of
\* measurement-noise deviations, ensemble sizes and measurement times.
InitWith(sigs, sizes, tms, dtms, tmms) ==
  /\ dt \in 1 .. MaxDt /\ tm \in tms /\ nt = tm \div dt
  /\ sig_m \in sigs /\ R = RMul(Rat(sig_m), Rat(sig_m))
  /\ dt_m \in dtms /\ tm_m \in tmms
  /\ sig_b \in {0, 1} /\ N \in sizes
  /\ nt_m = 0 /\ ind_m = <<>> /\ uTrue = <<>> /\ w = <<>>
  /\ k = 0 /\ km = 0 /\ B = Zero /\ ub = <<>> /\ ua = <<>> /\ uai = <<>>
  /\ pc = "schedule" /\ err = "none" /\ draws = <<>> /\ calls = <<>>

\* Configurations within the input contract of the filter: R invertible
\* and N >= 2.
Init == InitWith({1}, 2 .. MaxN, 1 .. MaxTm, 1 .. MaxDtM, 1 .. MaxTmM)
Spec == Init /\ [][Next]_vars

\* Every configuration, among them R = 0 and N = 1.
InitAny ==
  InitWith({0, 1}, 1 .. MaxN, 1 .. MaxTm, 1 .. MaxDtM, 1 .. MaxTmM)
SpecAny == InitAny /\ [][Next]_vars

\* The schedule computation alone, on longer horizons.
InitSchedule ==
  InitWith({1}, {2}, 1 .. SchedMaxTmM, 1 .. SchedMaxDtM, 1 .. SchedMaxTmM)
SpecSchedule == InitSchedule /\ [][Schedule]_vars

\* ------------------------------------------------- one call of EnKF alone
CallVals == {Rat(cv) : cv \in 0 .. CallMaxVal}
CallCovs == {Zero, <<1, 2>>, One}

\* EnKF applied to inputs drawn from CallVals, CallCovs and ObsOps; the
\* call and what it left behind are recorded in calls.
CallEnKF ==
  /\ pc = "enkf"
  /\ \E cn \in 1 .. CallMaxN, cop \in ObsOps, cw \in CallVals,
        cR \in CallCovs, cB \in CallCovs :
     \E cubi \in [0 .. cn - 1 -> CallVals] :
     \E ceps \in [0 .. cn - 1 -> Normal(cR)] :
     \E cr \in {EnKF(cubi, cw, cop, cR, cB, ceps, cn)} :
       /\ calls' = <<[k |-> 0, km |-> 0, ubi |-> cubi, w |-> cw, op |-> cop,
                      R |-> cR, B |-> cB, eps |-> ceps, n |-> cn,
                      res |-> cr]>>
       /\ draws' = [cd \in 1 .. cr.ndraws |-> <<"virt", 0, cd - 1>>]
       /\ err' = cr.err
       /\ pc' = IF cr.err = "none" THEN "returned" ELSE "raised"
  /\ UNCHANGED <<config, nt_m, ind_m, uTrue, w, k, km, B, ub, ua, uai>>

\* The caller goes on to another call.
NextCall ==
  /\ pc \in {"returned", "raised"}
  /\ pc' = "enkf" /\ err' = "none" /\ calls' = <<>> /\ draws' = <<>>
  /\ UNCHANGED <<config, nt_m, ind_m, uTrue, w, k, km, B, ub, ua, uai>>

InitEnKF ==
  /\ dt = 1 /\ tm = 1 /\ nt = 1 /\ sig_m = 0 /\ R = Zero
  /\ dt_m = 1 /\ tm_m = 1 /\ sig_b = 0 /\ N = 0
  /\ nt_m = 0 /\ ind_m = <<>> /\ uTrue = <<>> /\ w = <<>>
  /\ k = 0 /\ km = 0 /\ B = Zero /\ ub = <<>> /\ ua = <<>> /\ uai = <<>>
  /\ pc = "enkf" /\ err = "none" /\ draws = <<>> /\ calls = <<>>

NextEnKF == CallEnKF \/ NextCall
SpecEnKF == InitEnKF /\ [][NextEnKF]_vars

TypeOK == pc \in {"schedule", "truth", "main", "done", "failed",
                  "enkf", "returned", "raised"}

\* ================================================================ claims
InMain == pc = "main" /\ k < nt
Ran == pc \in {"main", "done"}
MainEntered == Ran \/ (pc = "failed" /\ err # "IndexError")
Last(sq) == sq[Len(sq)]
Called == Len(calls') = Len(calls) + 1

\* C1: in the main loop the analysis is invoked in step k exactly when
\* km < nt_m and k+1 = ind_m[km]; an invocation advances km by one, any
\* other step leaves km alone, a step makes at most one invocation, and the
\* j-th invocation consumes observation j-1 (schedule order, none twice).
C1_AnalysisOnSchedule ==
  /\ [][InMain =>
          /\ Called <=> (km < nt_m /\ k + 1 = ind_m[km])
          /\ Len(calls') \in {Len(calls), Len(calls) + 1}
          /\ Called => /\ km' = km + 1
                       /\ Last(calls').km = km /\ Last(calls').k = k
                       /\ Last(calls').w = w[km]
          /\ ~Called => km' = km]_vars
  /\ [](Ran => /\ Len(calls) = km
               /\ \A cj \in 1 .. Len(calls) : calls[cj].km = cj - 1)

\* two analyses have run and a step without analysis has followed
C1_Witness ==
  pc = "main" /\ Len(calls) = 2 /\ km = 2 /\ k > Last(calls).k + 1

\* C2: when a step of the main loop has completed, ua[:,k+1] is the mean of
\* the ensemble as it stands: of the analysis ensemble if an analysis ran in
\* the step, of the forecast ensemble otherwise; earlier entries stay.
C2_RecordedMean ==
  /\ [](Ran /\ k >= 1 =>
          /\ ua[k] = RDiv(RSum(uai, N), Rat(N))
          /\ (calls # <<>> /\ Last(calls).k = k - 1) =>
                /\ uai = Last(calls).res.uai
                /\ ua[k] = RDiv(RSum(Last(calls).res.uai, N), Rat(N)))
  /\ [][InMain => \A uj \in 0 .. k : ua'[uj] = ua[uj]]_vars

\* a step with an analysis that moved the ensemble mean has completed
C2_Witness ==
  /\ Ran /\ k >= 1 /\ calls # <<>> /\ Last(calls).k = k - 1
  /\ RSum(Last(calls).res.uai, N) # RSum(Last(calls).ubi, N)

\* the sample covariance of an ensemble with sz members, divisor sz-1
SampleCovariance(se, sz) ==
  LET smean == RDiv(RSum(se, sz), Rat(sz))
  IN  RDiv(RSum([si \in 0 .. sz - 1 |->
                   RMul(RSub(se[si], smean), RSub(se[si], smean))], sz),
           Rat(sz - 1))

ScheduleOK ==
  /\ pc # "schedule"
  /\ \A sj \in 0 .. nt_m - 1 : ind_m[sj] \in 1 .. nt
  /\ \A sj \in 0 .. nt_m - 2 : ind_m[sj] < ind_m[sj + 1]

\* C10: with such a schedule the truth pass ends after nt steps with
\* km = nt_m, the main loop ends after nt steps with km = nt_m, observation
\* j was generated from uTrue[:,ind_m[j]] and is assimilated exactly once,
\* in the step with k+1 = ind_m[j]; the main loop writes none of uTrue, w,
\* ind_m.
C10_EveryObservationOnce ==
  /\ [](ScheduleOK => pc # "failed")
  /\ [](ScheduleOK /\ pc = "truth" /\ k = nt => km = nt_m)
  /\ [](ScheduleOK /\ pc = "done" =>
          /\ k = nt /\ km = nt_m /\ Len(calls) = nt_m
          /\ \A oj \in 0 .. nt_m - 1 :
               /\ calls[oj + 1].km = oj
               /\ calls[oj + 1].k + 1 = ind_m[oj]
               /\ calls[oj + 1].w = w[oj]
               /\ RSub(w[oj], uTrue[ind_m[oj]]) \in Normal(Rat(sig_m)))
  /\ [][pc = "main" => UNCHANGED <<uTrue, w, ind_m, nt_m>>]_vars
  /\ [][(pc \in {"truth", "main"} /\ k' # k) =>
          ((k' = k + 1) \/ (k = nt /\ k' = 0))]_vars

\* a run with two scheduled observations has ended
C10_Witness == ScheduleOK /\ pc = "done" /\ nt_m = 2 /\ Len(calls) = 2

\* C7: ub[:,k+1] is the model step of ub[:,k] in every step, analysis or
\* not; ua[:,0] = ub[:,0] = u0b; and a step from the same ensemble, B, ua
\* and km yields the same ensemble, B, ua, km and outcome whatever ub holds.
OtherUb == {[oj \in 0 .. nt |-> Rat(ov)] : ov \in {0, 5}}

C7_BackgroundApart ==
  /\ [](MainEntered =>
          /\ ub[0] = u0b /\ ua[0] = u0b
          /\ \A bj \in 1 .. k : ub[bj] = RK4(ub[bj - 1], dt))
  /\ [][InMain => ub' = [ub EXCEPT ![k + 1] = RK4(ub[k], dt)]]_vars
  /\ [](InMain =>
          \A xq \in [0 .. N - 1 -> Normal(Q)] :
          \A xe \in (IF ObsDue(km, k) THEN [0 .. N - 1 -> Normal(R)]
                                     ELSE {NoDraw}) :
          \A sa \in {MainStepOf(ub, ua, uai, B, km, k, xq, xe)} :
          \A xub \in OtherUb :
          \A sb \in {MainStepOf(xub, ua, uai, B, km, k, xq, xe)} :
            /\ sa.uai = sb.uai /\ sa.B = sb.B /\ sa.ua = sb.ua
            /\ sa.km = sb.km /\ sa.err = sb.err /\ sa.call = sb.call)

\* an analysis has moved the estimate away from the background trajectory
C7_Witness ==
  /\ Ran /\ k >= 2 /\ calls # <<>> /\ Last(calls).k < k - 1
  /\ ua[k] # ub[k]

\* The draw site that may come right after draw site d1.
Follows(d1, d2) ==
  CASE d1[1] = "truth" ->
         d2 \in {<<"truth", d1[2] + 1, 0>>, <<"init", 0, 0>>}
    [] d1[1] = "init" ->
         IF d1[3] + 1 < N THEN d2 = <<"init", 0, d1[3] + 1>>
         ELSE d2 = <<"proc", 0, 0>>
    [] d1[1] = "proc" ->
         IF d1[3] + 1 < N THEN d2 = <<"proc", d1[2], d1[3] + 1>>
         ELSE d2 \in {<<"virt", d1[2], 0>>, <<"proc", d1[2] + 1, 0>>}
    [] d1[1] = "virt" ->
         IF d1[3] + 1 < N THEN d2 = <<"virt", d1[2], d1[3] + 1>>
         ELSE d2 = <<"proc", d1[2] + 1, 0>>

InOrder == \A dp \in 1 .. Len(draws) - 1 : Follows(draws[dp], draws[dp + 1])
Count(kind) == Cardinality({dp \in 1 .. Len(draws) : draws[dp][1] = kind})

\* C6 as stated: the draws after the seed start with the initial-ensemble
\* perturbation of member 0 and go on with the process noise and the
\* perturbed observations of each step, in member order.
C6_InitialEnsembleFirst ==
  /\ draws # <<>> => draws[1] = <<"init", 0, 0>>
  /\ InOrder

\* C6 amended: the draws after the seed are first the observation noise of
\* the truth pass, one draw per generated observation in schedule order,
\* then the initial-ensemble perturbations of members 0..N-1, then in every
\* step the process noise of members 0..N-1 followed, in a step with an
\* analysis, by the perturbed-observation draws of members 0..N-1.
C6_DrawOrder ==
  /\ InOrder
  /\ draws # <<>> => draws[1] \in {<<"truth", 0, 0>>, <<"init", 0, 0>>}
  /\ pc = "truth" => Len(draws) = km /\ Count("truth") = km
  /\ Ran => /\ Count("init") = N /\ Count("proc") = k * N
            /\ Count("virt") = Len(calls) * N
            /\ \A cj \in 1 .. Len(calls) :
                 \E dp \in 1 .. Len(draws) :
                   draws[dp] = <<"virt", calls[cj].k, N - 1>>

\* a run with observation noise drawn in the truth pass and with steps with
\* and without analysis has ended
C6_Witness ==
  /\ pc = "done" /\ draws[1] = <<"truth", 0, 0>>
  /\ Count("truth") = 2 /\ Count("virt") = 2 * N /\ Count("proc") > Count("virt")

\* ------------------------------------------------ claims on one EnKF call
\* The member i of the analysis as the listing of EnKF writes it, for the
\* observation noise e.
Updated(uc, ui, e) ==
  LET gn == RDiv(RMul(uc.B, JObsOp(uc.op, Mean(uc.ubi, uc.n))),
                 RAdd(RMul(RMul(JObsOp(uc.op, Mean(uc.ubi, uc.n)), uc.B),
                           JObsOp(uc.op, Mean(uc.ubi, uc.n))), uc.R))
  IN  RAdd(uc.ubi[ui], RMul(gn, RSub(RAdd(uc.w, e), ObsOp(uc.op, uc.ubi[ui]))))
Singular(uc) == InnovCov(JObsOp(uc.op, Mean(uc.ubi, uc.n)), uc.B, uc.R) = Zero

\* C3: in a call that gets as far as updating members, K is the one gain
\* B*Dh/(Dh*B*Dh + R) with Dh taken at the mean of the forecast ensemble,
\* and member i of the analysis is forecast member i plus K times
\* (w + draw i - ObsOp(forecast member i)); one draw is taken per member.
C3_GainOnceMemberwiseInnovation ==
  \A cj \in 1 .. Len(calls) :
    ~Singular(calls[cj]) =>
      /\ calls[cj].res.K =
           Gain(JObsOp(calls[cj].op, Mean(calls[cj].ubi, calls[cj].n)),
                calls[cj].B, calls[cj].R)
      /\ calls[cj].res.ndraws = calls[cj].n
      /\ \A ci \in 0 .. calls[cj].n - 1 :
           calls[cj].res.uai[ci] = Updated(calls[cj], ci, calls[cj].eps[ci])

\* a call with the nonlinear operator, two different members and two
\* different draws has returned with a gain that is not zero
C3_Witness ==
  /\ pc = "returned" /\ Len(calls) = 1
  /\ calls[1].op = "square" /\ calls[1].n = 2
  /\ calls[1].ubi[0] # calls[1].ubi[1] /\ calls[1].eps[0] # calls[1].eps[1]
  /\ calls[1].res.K # Zero /\ calls[1].res.uai # calls[1].ubi

\* C5 as stated: with zero observation noise and N = 1 the call returns an
\* analysis ensemble whose member is forecast + K*(w - ObsOp(forecast)).
C5_SingleMemberReturns ==
  \A cj \in 1 .. Len(calls) :
    (calls[cj].R = Zero /\ calls[cj].n = 1 /\ ~Singular(calls[cj])) =>
      /\ calls[cj].res.err = "none"
      /\ calls[cj].res.uai[0] = Updated(calls[cj], 0, Zero)

\* C5 amended: with zero observation noise every member the call computes
\* is forecast + K*(w - ObsOp(forecast)); the call returns that ensemble
\* when N >= 2, and with N = 1 it raises ZeroDivisionError at the
\* covariance after computing the member, so it returns nothing.
C5_DeterministicCorrection ==
  \A cj \in 1 .. Len(calls) :
    (calls[cj].R = Zero /\ ~Singular(calls[cj])) =>
      /\ \A ci \in 0 .. calls[cj].n - 1 :
           calls[cj].res.uai[ci] = Updated(calls[cj], ci, Zero)
      /\ calls[cj].n = 1 =>
           calls[cj].res.err = "ZeroDivisionError" /\ pc = "raised"
      /\ calls[cj].n >= 2 => calls[cj].res.err = "none" /\ pc = "returned"

\* a call with zero observation noise and one member has corrected the
\* member and raised
C5_Witness ==
  /\ pc = "raised" /\ err = "ZeroDivisionError" /\ Len(calls) = 1
  /\ calls[1].R = Zero /\ calls[1].n = 1 /\ calls[1].res.K # Zero
  /\ calls[1].res.uai[0] # calls[1].ubi[0]
  /\ calls[1].res.uai[0] = Updated(calls[1], 0, Zero)

\* ------------------------------------------------ claims on failing runs
\* C4: an analysis call whose Dh*B*Dh' + R is singular or whose ensemble
\* has fewer than two members raises; a call that raises is the last thing
\* the run does: the run has failed with that error, no step follows, and
\* k, km, the ensemble, B and ua are as they were when the call was made.
\* With N < 2 the run fails before any analysis call.
C4_FailedAnalysisAborts ==
  /\ [](/\ \A cj \in 1 .. Len(calls) :
             /\ (Singular(calls[cj]) \/ calls[cj].n < 2) =>
                  calls[cj].res.err # "none"
             /\ calls[cj].res.err # "none" =>
                  /\ pc = "failed" /\ err = calls[cj].res.err
                  /\ cj = Len(calls)
                  /\ k = calls[cj].k /\ km = calls[cj].km
                  /\ uai = calls[cj].ubi /\ B = calls[cj].B
                  /\ ua[k + 1] = Mean(calls[cj].ubi, calls[cj].n)
        /\ (MainEntered /\ N < 2) => calls = <<>> /\ k = 0 /\ km = 0)
  /\ [][pc # "failed"]_vars

\* an analysis call with a singular innovation covariance has failed a run
\* in an observation step
C4_Witness ==
  /\ pc = "failed" /\ err = "LinAlgError" /\ calls # <<>>
  /\ Singular(Last(calls)) /\ Last(calls).k + 1 = ind_m[km]

\* ------------------------------------------------ claims on the schedule
\* C9: the schedule has tm_m/dt_m entries and entry j (j = 1..nt_m) is the
\* integer nearest to j*dt_m/dt, whatever dt, dt_m and tm_m are.
C9_NearestStep ==
  pc = "truth" =>
    /\ DOMAIN ind_m = 0 .. nt_m - 1
    /\ nt_m = tm_m \div dt_m
    /\ \A sj \in 1 .. nt_m : 2 * Abs(ind_m[sj - 1] * dt - sj * dt_m) <= dt
====
